---- MODULE Spec2Model ----
(***************************************************************************)
(* CPU scheduling simulator: FCFSSchedule, SJFSchedule (preemptive SRTF),  *)
(* SJFPrioritySchedule and RRSchedule over a slice of Process records.     *)
(*                                                                         *)
(* Go slices are 0-based; the sequences here are 1-based, so a Go index k  *)
(* is the index k+1 here and Go's "no index" value -1 is 0 here.           *)
(* float64 accumulators hold integers small enough to be exact; a float64  *)
(* quotient is kept as the pair <<numerator, denominator>>, or as "NaN" /  *)
(* "+Inf" / "-Inf" when the divisor is zero (IEEE 754 division).           *)
(***************************************************************************)
EXTENDS Integers, Sequences, FiniteSets, TLC

\* ---------------------------------------------------------------- bounds
MaxN == 2
MaxArrival == 2
MaxBurst == 2

\* ------------------------------------------------------ program constants
\* const quantum int64 = ((5 + 9 + 6) / 3), integer division
quantum == (5 + 9 + 6) \div 3

\* shortestTime := int64(math.MaxInt64); larger than every remaining burst
\* the bounds allow (the model's integers are 32 bits wide)
MaxInt64 == 2147483647

\* ------------------------------------------------------------------ input
\* Process{ProcessID, ArrivalTime, BurstDuration, Priority}
Process(id, arrival, burst, priority) ==
    [ProcessID |-> id, ArrivalTime |-> arrival, BurstDuration |-> burst, Priority |-> priority]

\* bursts that finish within one quantum, and one that is preempted once
Bursts == (1..MaxBurst) \cup {quantum + 1}

Arrivals == 0..MaxArrival

\* loadProcesses: one record per CSV row, Priority 0 when the fourth column
\* is absent; the rows are numbered 1, 2, ... in the order of the file
GeneratedInputs ==
    UNION {{[k \in 1..n |-> Process(k, a[k], b[k], 0)] :
              a \in [1..n -> Arrivals], b \in [1..n -> Bursts]} : n \in 0..MaxN}

\* the worked examples of the documentation
SRTFExample == <<Process(1, 0, 8, 0), Process(2, 1, 4, 0), Process(3, 2, 9, 0), Process(4, 3, 5, 0)>>
RRExample == <<Process(1, 0, 10, 0), Process(2, 1, 4, 0)>>
PriorityExample == <<Process(1, 2, 6, 0), Process(2, 0, 8, 0)>>
FCFSExample == <<Process(1, 0, 5, 0), Process(2, 1, 3, 0)>>

\* three short processes, the third arriving as the second finishes
LateThirdExample == <<Process(1, 0, 1, 0), Process(2, 0, 1, 0), Process(3, 2, 1, 0)>>

Inputs == GeneratedInputs \cup
          {SRTFExample, RRExample, PriorityExample, FCFSExample, LateThirdExample}

\* ------------------------------------------------------------ fmt.Sprint
DigitChars == <<"0", "1", "2", "3", "4", "5", "6", "7", "8", "9">>

RECURSIVE FormatUint(_)
\* decimal digits of n >= 0, most significant first
FormatUint(n) ==
    IF n < 10 THEN <<DigitChars[n + 1]>>
    ELSE FormatUint(n \div 10) \o <<DigitChars[(n % 10) + 1]>>

\* fmt.Sprint of an int64: a string, here the sequence of its characters
Sprint(n) == IF n < 0 THEN <<"-">> \o FormatUint(0 - n) ELSE FormatUint(n)

\* ------------------------------------------------------ float64 division
Quotient(num, den) ==
    IF den # 0 THEN <<num, den>>
    ELSE IF num = 0 THEN "NaN"
    ELSE IF num > 0 THEN "+Inf" ELSE "-Inf"

\* ------------------------------------------------------------- sort.Slice
\* the less function without its burst tie-break
LessPriorityArrivalOnly(a, b) == a.ArrivalTime < b.ArrivalTime

\* less function of SJFPrioritySchedule
LessPriority(a, b) ==
    IF a.ArrivalTime = b.ArrivalTime
    THEN a.BurstDuration < b.BurstDuration
    ELSE a.ArrivalTime < b.ArrivalTime

\* the less function with <= in place of <: equal arrivals count as out of order
LessRROrEqual(a, b) == a.ArrivalTime <= b.ArrivalTime

\* less function of RRSchedule
LessRR(a, b) == a.ArrivalTime < b.ArrivalTime

Less(byBurst, a, b) == IF byBurst THEN LessPriority(a, b) ELSE LessRR(a, b)

Swap(s, j, k) == [s EXCEPT ![j] = s[k], ![k] = s[j]]

RECURSIVE InsertDown(_, _, _)
\* inner loop: for j := i; j > a && less(j, j-1); j-- { swap(j, j-1) }
InsertDown(s, j, byBurst) ==
    IF j > 1 /\ Less(byBurst, s[j], s[j - 1])
    THEN InsertDown(Swap(s, j, j - 1), j - 1, byBurst)
    ELSE s

RECURSIVE InsertionSort(_, _, _)
\* outer loop: for i := a + 1; i < b; i++
InsertionSort(s, k, byBurst) ==
    IF k > Len(s) THEN s
    ELSE InsertionSort(InsertDown(s, k, byBurst), k + 1, byBurst)

\* sort.Slice on a slice of at most 12 elements is an insertion sort
SortSlice(s, byBurst) == InsertionSort(s, 2, byBurst)

\* ------------------------------------------------------------------ state
VARIABLES
    processes,          \* the caller's slice, shared with the callee
    original,           \* the slice as loadProcesses returned it
    pc,                 \* "idle", or the loop the running algorithm is in
    alg,                \* the algorithm running or last run ("none" before the first call)
    i,                  \* loop index of FCFS / Priority
    serviceTime,
    currentTime,
    totalWait,
    totalTurnaround,
    lastCompletion,
    waitingTime,
    schedule,
    gantt,
    remainingBursts,
    completed,
    completionTimes,
    queue,
    admitted,           \* the indices pushed by queue.PushBack(0) and queue.PushBack(i), in order
    completedProcesses,
    procDone,
    shortestIdx,
    aveWait,
    aveTurnaround,
    aveThroughput,
    previous            \* what the previous call produced, when the call running is a repeat of it

vars == <<processes, original, pc, alg, i, serviceTime, currentTime,
          totalWait, totalTurnaround, lastCompletion, waitingTime, schedule,
          gantt, remainingBursts, completed, completionTimes, queue, admitted,
          completedProcesses, procDone, shortestIdx, aveWait, aveTurnaround,
          aveThroughput, previous>>

N == Len(processes)

\* a nil []string
NilRow == << >>

\* []string{ID, Priority, Burst, Arrival, Wait, Turnaround, Exit}
Row(p, wait, turnaround, completion) ==
    <<Sprint(p.ProcessID), Sprint(p.Priority), Sprint(p.BurstDuration),
      Sprint(p.ArrivalTime), Sprint(wait), Sprint(turnaround), Sprint(completion)>>

TimeSlice(pid, start, stop) == [PID |-> pid, Start |-> start, Stop |-> stop]

\* what a call hands to the output functions
Result ==
    [schedule |-> schedule, gantt |-> gantt, aveWait |-> aveWait,
     aveTurnaround |-> aveTurnaround, aveThroughput |-> aveThroughput]

\* no result kept
NoResult == << >>

\* the result of the last call, kept when algorithm a is called again right after itself
Remember(a) == IF alg = a THEN <<Result>> ELSE NoResult

\* the zero values of the locals, before a call declares its own
Locals(procs) ==
    /\ i' = 1
    /\ serviceTime' = 0
    /\ currentTime' = 0
    /\ totalWait' = 0
    /\ totalTurnaround' = 0
    /\ lastCompletion' = 0
    /\ waitingTime' = 0
    /\ schedule' = [k \in 1..Len(procs) |-> NilRow]
    /\ gantt' = << >>
    /\ aveWait' = "unset"
    /\ aveTurnaround' = "unset"
    /\ aveThroughput' = "unset"

Init ==
    /\ processes \in Inputs
    /\ original = processes
    /\ pc = "idle"
    /\ alg = "none"
    /\ i = 1
    /\ serviceTime = 0
    /\ currentTime = 0
    /\ totalWait = 0
    /\ totalTurnaround = 0
    /\ lastCompletion = 0
    /\ waitingTime = 0
    /\ schedule = << >>
    /\ gantt = << >>
    /\ remainingBursts = << >>
    /\ completed = << >>
    /\ completionTimes = << >>
    /\ queue = << >>
    /\ admitted = << >>
    /\ completedProcesses = 0
    /\ procDone = 0
    /\ shortestIdx = 0
    /\ aveWait = "unset"
    /\ aveTurnaround = "unset"
    /\ aveThroughput = "unset"
    /\ previous = NoResult

\* ------------------------------------------------------------------- FCFS
CallFCFS ==
    /\ pc = "idle"
    /\ pc' = "FCFS"
    /\ alg' = "FCFS"
    /\ previous' = Remember("FCFS")
    /\ Locals(processes)
    /\ remainingBursts' = << >>
    /\ completed' = << >>
    /\ completionTimes' = << >>
    /\ queue' = << >>
    /\ admitted' = << >>
    /\ completedProcesses' = 0
    /\ procDone' = 0
    /\ shortestIdx' = 0
    /\ UNCHANGED <<processes, original>>

\* a slice start taken from the clock plus the wait
FCFSStartFromClock(p, wt, st) == st + wt

\* start := waitingTime + processes[i].ArrivalTime (st is serviceTime before the burst is added)
FCFSStart(p, wt, st) == wt + p.ArrivalTime

\* waitingTime is declared outside the loop and assigned only when ArrivalTime > 0
FCFSWait(p, wt, st) == IF p.ArrivalTime > 0 THEN st - p.ArrivalTime ELSE wt

\* one iteration of: for i := range processes
FCFSStep ==
    /\ pc = "FCFS"
    /\ i <= N
    /\ LET p == processes[i]
           wt == FCFSWait(p, waitingTime, serviceTime)
           start == FCFSStart(p, wt, serviceTime)
           turnaround == p.BurstDuration + wt
           completion == p.BurstDuration + p.ArrivalTime + wt
       IN /\ waitingTime' = wt
          /\ totalWait' = totalWait + wt
          /\ totalTurnaround' = totalTurnaround + turnaround
          /\ lastCompletion' = completion
          /\ schedule' = [schedule EXCEPT ![i] = Row(p, wt, turnaround, completion)]
          /\ serviceTime' = serviceTime + p.BurstDuration
          /\ gantt' = Append(gantt, TimeSlice(p.ProcessID, start, serviceTime + p.BurstDuration))
    /\ i' = i + 1
    /\ UNCHANGED <<processes, original, pc, alg, currentTime, remainingBursts,
                   completed, completionTimes, queue, admitted, completedProcesses,
                   procDone, shortestIdx, aveWait, aveTurnaround, aveThroughput, previous>>

\* -------------------------------------------------- SJF (preemptive SRTF)
CallSJF ==
    /\ pc = "idle"
    /\ pc' = "SJF"
    /\ alg' = "SJF"
    /\ previous' = Remember("SJF")
    /\ Locals(processes)
    /\ remainingBursts' = [k \in 1..N |-> processes[k].BurstDuration]
    /\ completed' = [k \in 1..N |-> FALSE]
    /\ procDone' = 0
    /\ completionTimes' = << >>
    /\ queue' = << >>
    /\ admitted' = << >>
    /\ completedProcesses' = 0
    /\ shortestIdx' = 0
    /\ UNCHANGED <<processes, original>>

\* the scan condition with a strict arrival test: a process is eligible one unit late
ShorterStrictArrival(p, done, remaining, t, best) ==
    ~done /\ p.ArrivalTime < t /\ remaining < best

\* the scan condition with <= in place of <: the last of equally short processes wins
ShorterOrEqual(p, done, remaining, t, best) ==
    ~done /\ p.ArrivalTime <= t /\ remaining <= best

\* the condition of the scan: not completed, arrived, strictly shorter than the best so far
Shorter(p, done, remaining, t, best) ==
    ~done /\ p.ArrivalTime <= t /\ remaining < best

RECURSIVE ScanShortest(_, _, _, _, _, _, _)
\* for i, p := range processes, from index k on, with the best index and time so far
ScanShortest(procs, done, remaining, t, k, idx, best) ==
    IF k > Len(procs) THEN idx
    ELSE IF Shorter(procs[k], done[k], remaining[k], t, best)
         THEN ScanShortest(procs, done, remaining, t, k + 1, k, remaining[k])
         ELSE ScanShortest(procs, done, remaining, t, k + 1, idx, best)

SJFWait(p, t) == t - p.BurstDuration - p.ArrivalTime

SJFSliceStart(p, t, wait) == t - p.BurstDuration + wait

\* one iteration of: for procDone < n
SJFStep ==
    /\ pc = "SJF"
    /\ procDone < N
    /\ LET idx == ScanShortest(processes, completed, remainingBursts, currentTime, 1, 0, MaxInt64)
           t == currentTime + 1
       IN /\ shortestIdx' = idx
          /\ currentTime' = t
          /\ IF idx = 0
             THEN UNCHANGED <<remainingBursts, completed, procDone, waitingTime, totalWait,
                              totalTurnaround, lastCompletion, schedule, gantt>>
             ELSE LET p == processes[idx]
                      left == remainingBursts[idx] - 1
                      wt == SJFWait(p, t)
                      turnaround == p.BurstDuration + wt
                  IN /\ remainingBursts' = [remainingBursts EXCEPT ![idx] = left]
                     /\ IF left = 0
                        THEN /\ completed' = [completed EXCEPT ![idx] = TRUE]
                             /\ procDone' = procDone + 1
                             /\ waitingTime' = wt
                             /\ totalWait' = totalWait + wt
                             /\ totalTurnaround' = totalTurnaround + turnaround
                             /\ lastCompletion' = t
                             /\ schedule' = [schedule EXCEPT ![idx] = Row(p, wt, turnaround, t)]
                             /\ gantt' = Append(gantt, TimeSlice(p.ProcessID, SJFSliceStart(p, t, wt), t))
                        ELSE UNCHANGED <<completed, procDone, waitingTime, totalWait,
                                         totalTurnaround, lastCompletion, schedule, gantt>>
    /\ UNCHANGED <<processes, original, pc, alg, i, serviceTime, completionTimes, queue,
                   admitted, completedProcesses, aveWait, aveTurnaround, aveThroughput, previous>>

\* ------------------------------------- "Priority" (non-preemptive, sorted)
CallPriority ==
    /\ pc = "idle"
    /\ pc' = "Priority"
    /\ alg' = "Priority"
    /\ previous' = Remember("Priority")
    /\ processes' = SortSlice(processes, TRUE)
    /\ Locals(processes)
    /\ remainingBursts' = << >>
    /\ completed' = << >>
    /\ completionTimes' = << >>
    /\ queue' = << >>
    /\ admitted' = << >>
    /\ completedProcesses' = 0
    /\ procDone' = 0
    /\ shortestIdx' = 0
    /\ UNCHANGED original

PriorityWait(p, t) == IF p.ArrivalTime > t THEN 0 ELSE t - p.ArrivalTime

\* the clock set to the arrival time whether or not the CPU is still busy
PriorityClockArrival(p, t) == p.ArrivalTime

\* the clock without the idle jump to a late arrival
PriorityClockNoJump(p, t) == t

\* the clock after the idle jump, before the burst is added
PriorityClock(p, t) == IF p.ArrivalTime > t THEN p.ArrivalTime ELSE t

\* one iteration of: for idx, p := range processes
PriorityStep ==
    /\ pc = "Priority"
    /\ i <= N
    /\ LET p == processes[i]
           wt == PriorityWait(p, currentTime)
           turnaround == p.BurstDuration + wt
           t == PriorityClock(p, currentTime) + p.BurstDuration
       IN /\ waitingTime' = wt
          /\ totalWait' = totalWait + wt
          /\ totalTurnaround' = totalTurnaround + turnaround
          /\ currentTime' = t
          /\ lastCompletion' = t
          /\ schedule' = [schedule EXCEPT ![i] = Row(p, wt, turnaround, t)]
          /\ gantt' = Append(gantt, TimeSlice(p.ProcessID, t - p.BurstDuration, t))
    /\ i' = i + 1
    /\ UNCHANGED <<processes, original, pc, alg, serviceTime, remainingBursts, completed,
                   completionTimes, queue, admitted, completedProcesses, procDone,
                   shortestIdx, aveWait, aveTurnaround, aveThroughput, previous>>

\* ------------------------------------------------------------ Round-robin
CallRR ==
    /\ pc = "idle"
    /\ pc' = "RR"
    /\ alg' = "RR"
    /\ previous' = Remember("RR")
    /\ processes' = SortSlice(processes, FALSE)
    /\ Locals(processes)
    /\ remainingBursts' = [k \in 1..N |-> processes'[k].BurstDuration]
    /\ completionTimes' = [k \in 1..N |-> 0]
    /\ queue' = IF N > 0 THEN <<1>> ELSE << >>
    /\ admitted' = IF N > 0 THEN <<1>> ELSE << >>
    /\ completedProcesses' = 0
    /\ completed' = << >>
    /\ procDone' = 0
    /\ shortestIdx' = 0
    /\ UNCHANGED original

\* the index the admission loop starts from: i := completedProcesses (0-based)
AdmitFrom(count) == count + 1

RECURSIVE Admit(_, _, _, _)
\* for i := completedProcesses; i < len(processes) && processes[i].ArrivalTime <= currentTime; i++
\* the indices pushed, in order, starting from index k
Admit(procs, t, k, pushed) ==
    IF k <= Len(procs) /\ procs[k].ArrivalTime <= t
    THEN Admit(procs, t, k + 1, Append(pushed, k))
    ELSE pushed

RRWait(p, t) == t - p.BurstDuration - p.ArrivalTime

RRSliceStart(p, t, wait) == t - p.BurstDuration + wait

\* one iteration of: for queue.Len() > 0
RRStep ==
    /\ pc = "RR"
    /\ queue # << >>
    /\ LET currentIdx == Head(queue)
           currentProcess == processes[currentIdx]
           finishes == remainingBursts[currentIdx] <= quantum
           t == IF finishes THEN currentTime + remainingBursts[currentIdx]
                ELSE currentTime + quantum
           wt == RRWait(currentProcess, t)
           turnaround == currentProcess.BurstDuration + wt
           count == IF finishes THEN completedProcesses + 1 ELSE completedProcesses
           popped == IF finishes THEN Tail(queue) ELSE Append(Tail(queue), currentIdx)
           pushed == Admit(processes, t, AdmitFrom(count), << >>)
       IN /\ currentTime' = t
          /\ IF finishes
             THEN /\ remainingBursts' = [remainingBursts EXCEPT ![currentIdx] = 0]
                  /\ waitingTime' = wt
                  /\ totalWait' = totalWait + wt
                  /\ totalTurnaround' = totalTurnaround + turnaround
                  /\ lastCompletion' = t
                  /\ completionTimes' = [completionTimes EXCEPT ![currentIdx] = t]
                  /\ gantt' = Append(gantt, TimeSlice(currentProcess.ProcessID,
                                                      RRSliceStart(currentProcess, t, wt), t))
             ELSE /\ remainingBursts' = [remainingBursts EXCEPT ![currentIdx] = @ - quantum]
                  /\ UNCHANGED <<waitingTime, totalWait, totalTurnaround, lastCompletion,
                                 completionTimes, gantt>>
          /\ queue' = popped \o pushed
          /\ admitted' = admitted \o pushed
          /\ completedProcesses' = count + Len(pushed)
    /\ UNCHANGED <<processes, original, pc, alg, i, serviceTime, schedule, completed,
                   procDone, shortestIdx, aveWait, aveTurnaround, aveThroughput, previous>>

\* the second loop: for idx, p := range processes, after the queue has drained
RRRows ==
    /\ pc = "RR"
    /\ queue = << >>
    /\ pc' = "RRrows"
    /\ schedule' = [k \in 1..N |->
                      LET p == processes[k]
                          wt == RRWait(p, completionTimes[k])
                      IN Row(p, wt, p.BurstDuration + wt, completionTimes[k])]
    /\ waitingTime' = IF N > 0 THEN RRWait(processes[N], completionTimes[N]) ELSE waitingTime
    /\ UNCHANGED <<processes, original, alg, i, serviceTime, currentTime, totalWait,
                   totalTurnaround, lastCompletion, gantt, remainingBursts, completed,
                   completionTimes, queue, admitted, completedProcesses, procDone,
                   shortestIdx, aveWait, aveTurnaround, aveThroughput, previous>>

\* ------------------------------------------------- the aggregate metrics
\* the main loop of the running algorithm has ended
LoopDone ==
    \/ pc = "FCFS" /\ i > N
    \/ pc = "SJF" /\ procDone >= N
    \/ pc = "Priority" /\ i > N
    \/ pc = "RRrows"

\* count := float64(len(processes)) and the three divisions, then the output
\* calls and the return to the caller
Return ==
    /\ LoopDone
    /\ aveWait' = Quotient(totalWait, N)
    /\ aveTurnaround' = Quotient(totalTurnaround, N)
    /\ aveThroughput' = Quotient(N, lastCompletion)
    /\ pc' = "idle"
    /\ UNCHANGED <<processes, original, alg, i, serviceTime, currentTime, totalWait,
                   totalTurnaround, lastCompletion, waitingTime, schedule, gantt,
                   remainingBursts, completed, completionTimes, queue, admitted,
                   completedProcesses, procDone, shortestIdx, previous>>

Next ==
    \/ CallFCFS
    \/ FCFSStep
    \/ CallSJF
    \/ SJFStep
    \/ CallPriority
    \/ PriorityStep
    \/ CallRR
    \/ RRStep
    \/ RRRows
    \/ Return

Spec == Init /\ [][Next]_vars

\* =========================================================== properties
\* reading a cell of a row back as the integer it prints
DigitValue(c) == CHOOSE d \in 0..9 : DigitChars[d + 1] = c

RECURSIVE ParseUint(_)
ParseUint(s) ==
    IF Len(s) = 1 THEN DigitValue(s[1])
    ELSE 10 * ParseUint(SubSeq(s, 1, Len(s) - 1)) + DigitValue(s[Len(s)])

Atoi(s) == IF s[1] = "-" THEN 0 - ParseUint(Tail(s)) ELSE ParseUint(s)

RowID(r) == Atoi(r[1])
RowBurst(r) == Atoi(r[3])
RowArrival(r) == Atoi(r[4])
RowWait(r) == Atoi(r[5])
RowTurnaround(r) == Atoi(r[6])
RowCompletion(r) == Atoi(r[7])

EmittedRows == {schedule[k] : k \in DOMAIN schedule} \ {NilRow}

GanttSlices == {gantt[k] : k \in DOMAIN gantt}

Range(s) == {s[k] : k \in DOMAIN s}

\* the last call has returned
Returned(a) == pc = "idle" /\ alg = a

NonFinite == {"NaN", "+Inf", "-Inf"}

Max(a, b) == IF a >= b THEN a ELSE b

\* the completion time of the process handled before the k-th, 0 for the first
PreviousStop(k) == IF k = 1 THEN 0 ELSE gantt[k - 1].Stop

\* C1: in every algorithm, every emitted row has turnaround = burst + wait
\* and completion = arrival + wait + burst.
C1_RowIdentities ==
    \A r \in EmittedRows :
        /\ RowTurnaround(r) = RowBurst(r) + RowWait(r)
        /\ RowCompletion(r) = RowArrival(r) + RowWait(r) + RowBurst(r)

\* a "Priority" run that idled forward to a late arrival and also made a process wait
C1_Witness ==
    /\ Returned("Priority")
    /\ N >= 2
    /\ \E r \in EmittedRows : RowWait(r) > 0
    /\ \E k \in 1..N : processes[k].ArrivalTime > PreviousStop(k)
    /\ C1_RowIdentities

\* C2: in every algorithm, the wait of every emitted row is >= 0.
C2_WaitNonNegative == \A r \in EmittedRows : RowWait(r) >= 0

\* C3: no algorithm changes the caller's process sequence.
C3_InputUnchanged == processes = original

\* C4: on an empty process sequence no algorithm evaluates the aggregate
\* divisions with a zero divisor.
C4_EmptyInputNoDivision ==
    N = 0 => /\ aveWait \notin NonFinite
             /\ aveTurnaround \notin NonFinite
             /\ aveThroughput \notin NonFinite

\* C5: every Gantt slice appended by any algorithm has 0 <= start < stop.
C5_SliceWellFormed == \A g \in GanttSlices : 0 <= g.Start /\ g.Start < g.Stop

\* the processes SRTF may run in the time unit that starts at currentTime
Eligible == {k \in 1..N : ~completed[k] /\ processes[k].ArrivalTime <= currentTime}

\* one time unit of SRTF: the smallest remaining burst among the eligible, the
\* lowest index on a tie, runs for one unit; nothing runs only if none is eligible
SRTFUnit ==
    (pc = "SJF" /\ currentTime' = currentTime + 1) =>
        IF Eligible = {}
        THEN shortestIdx' = 0 /\ remainingBursts' = remainingBursts
        ELSE /\ shortestIdx' \in Eligible
             /\ \A k \in Eligible :
                    \/ remainingBursts[shortestIdx'] < remainingBursts[k]
                    \/ remainingBursts[shortestIdx'] = remainingBursts[k] /\ shortestIdx' <= k
             /\ remainingBursts' = [remainingBursts EXCEPT ![shortestIdx'] = @ - 1]

\* processes 2, 4, 1, 3 complete in this order
SRTFExampleOrder == [k \in DOMAIN gantt |-> gantt[k].PID] = <<2, 4, 1, 3>>

SRTFExampleOutcome ==
    (original = SRTFExample /\ processes = original /\ Returned("SJF")) =>
        /\ SRTFExampleOrder
        /\ \A r \in EmittedRows : RowWait(r) >= 0

\* C6: SJFSchedule runs, at every time unit, the eligible process with the
\* smallest remaining burst (lowest index on a tie) and idles only when no
\* process is eligible; on the documented example the completion order is
\* 2, 4, 1, 3 with every wait >= 0.
C6_SRTF == [][SRTFUnit]_vars /\ [](SRTFExampleOutcome)

C6_Witness ==
    /\ original = SRTFExample
    /\ processes = original
    /\ Returned("SJF")
    /\ SRTFExampleOrder
    /\ Len(gantt) = 4

\* the order SJFPrioritySchedule sorts into
ArrivalThenBurst(procs) ==
    \A k \in 2..Len(procs) :
        \/ procs[k - 1].ArrivalTime < procs[k].ArrivalTime
        \/ /\ procs[k - 1].ArrivalTime = procs[k].ArrivalTime
           /\ procs[k - 1].BurstDuration <= procs[k].BurstDuration

\* C7: SJFPrioritySchedule handles the processes by arrival ascending, ties
\* by burst ascending, each run to completion from max(arrival, completion of
\* the previous one), with wait 0 when it arrives after the clock and
\* clock - arrival otherwise; on the documented example process 2 goes first.
C7_PriorityOrder ==
    alg = "Priority" =>
        /\ ArrivalThenBurst(processes)
        /\ Range(processes) = Range(original)
        /\ Len(processes) = Len(original)
        /\ Len(gantt) = (IF pc = "idle" THEN N ELSE i - 1)
        /\ \A k \in DOMAIN gantt :
              LET p == processes[k]
                  start == Max(p.ArrivalTime, PreviousStop(k))
              IN /\ gantt[k] = TimeSlice(p.ProcessID, start, start + p.BurstDuration)
                 /\ RowID(schedule[k]) = p.ProcessID
                 /\ RowWait(schedule[k]) = (IF p.ArrivalTime > PreviousStop(k) THEN 0
                                            ELSE PreviousStop(k) - p.ArrivalTime)
                 /\ RowCompletion(schedule[k]) = start + p.BurstDuration
        /\ (original = PriorityExample /\ gantt # << >>) => gantt[1].PID = 2

\* a returned run that reordered its input, broke an arrival tie by burst,
\* idled forward once and made a process wait once
C7_Witness ==
    /\ Returned("Priority")
    /\ processes # original
    /\ \E k \in 2..N : /\ processes[k - 1].ArrivalTime = processes[k].ArrivalTime
                       /\ processes[k - 1].BurstDuration < processes[k].BurstDuration
                       /\ processes[k - 1].ProcessID > processes[k].ProcessID
    /\ \E k \in DOMAIN gantt : processes[k].ArrivalTime > PreviousStop(k)
    /\ \E k \in DOMAIN gantt : RowWait(schedule[k]) > 0
    /\ C7_PriorityOrder

\* RRSchedule has popped the queue at least once (every burst is positive)
RRPopped == alg = "RR" /\ currentTime > 0

\* C8: in RRSchedule, after every pop every process whose arrival time is
\* <= currentTime has been admitted to the queue.
C8_ArrivedAdmitted ==
    RRPopped => \A k \in 1..N : processes[k].ArrivalTime <= currentTime => k \in Range(admitted)

\* C9: RRSchedule admits no process twice: the queue holds each index at most
\* once and never a process whose remaining burst is 0.
C9_NoDoubleAdmission ==
    alg = "RR" =>
        /\ \A j, k \in DOMAIN admitted : admitted[j] = admitted[k] => j = k
        /\ \A j, k \in DOMAIN queue : queue[j] = queue[k] => j = k
        /\ \A j \in DOMAIN queue : remainingBursts[queue[j]] > 0

\* C10: RRSchedule on [(1,arrival=0,burst=10),(2,arrival=1,burst=4)] runs
\* process 1 from 0 to 6, then process 2, which completes before process 1.
C10_RRExample ==
    (original = RRExample /\ processes = original /\ alg = "RR") =>
        /\ (currentTime > 0 => currentTime >= 6 /\ remainingBursts[1] <= 4)
        /\ (completionTimes[1] > 0 => completionTimes[2] > 0)
        /\ (pc = "idle" => completionTimes[2] < completionTimes[1])

RECURSIVE SumBursts(_, _)
\* the sum of the bursts of the first k processes of procs
SumBursts(procs, k) == IF k = 0 THEN 0 ELSE SumBursts(procs, k - 1) + procs[k].BurstDuration

Min(a, b) == IF a <= b THEN a ELSE b

\* the first process arrives at 0 and every other one no later than the sum
\* of the bursts before it: the CPU never has to idle
NoIdleNeeded(procs) ==
    /\ Len(procs) >= 1
    /\ procs[1].ArrivalTime = 0
    /\ \A k \in 2..Len(procs) : procs[k].ArrivalTime <= SumBursts(procs, k - 1)

\* the arrival times do not decrease along procs
ArrivalSorted(procs) == \A k \in 2..Len(procs) : procs[k - 1].ArrivalTime <= procs[k].ArrivalTime

\* the main loop of RRSchedule has ended
RRLoopEnded == alg = "RR" /\ (pc = "RRrows" \/ pc = "idle" \/ (pc = "RR" /\ queue = << >>))

\* a pop of RRSchedule advances the clock by min(remaining burst, quantum)
RRClockStep ==
    (pc = "RR" /\ pc' = "RR") =>
        currentTime' = currentTime + Min(remainingBursts[Head(queue)], quantum)

RRTotalTime ==
    (RRLoopEnded /\ NoIdleNeeded(processes)) =>
        /\ currentTime = SumBursts(processes, N)
        /\ lastCompletion = SumBursts(processes, N)
        /\ (original = RRExample => currentTime = 14)

\* C11: when RRSchedule finishes on an input that needs no idle time, the
\* final currentTime and the last completion equal the sum of all bursts, the
\* clock advancing by min(remaining burst, quantum) on every pop; 14 on the
\* documented example.
C11_RRTotalTime == [][RRClockStep]_vars /\ [](RRTotalTime)

\* C12: FCFSSchedule on an arrival-sorted input with no idle gap gives every
\* process wait = (sum of the bursts before it) - arrival and completion =
\* (sum of the bursts up to and including it); waits [0, 4] and completions
\* [5, 8] on the documented example.
C12_FCFSNoGap ==
    (alg = "FCFS" /\ ArrivalSorted(processes) /\ NoIdleNeeded(processes)) =>
        /\ \A k \in 1..(i - 1) :
              /\ RowWait(schedule[k]) = SumBursts(processes, k - 1) - processes[k].ArrivalTime
              /\ RowCompletion(schedule[k]) = SumBursts(processes, k)
        /\ (processes = FCFSExample /\ pc = "idle") =>
              /\ RowWait(schedule[1]) = 0 /\ RowWait(schedule[2]) = 4
              /\ RowCompletion(schedule[1]) = 5 /\ RowCompletion(schedule[2]) = 8

\* C13: running the same algorithm twice in succession yields identical
\* results: the same rows in the same order, the same Gantt slices and the
\* same totals and averages.
C13_RepeatIdentical == (pc = "idle" /\ previous # NoResult) => Result = previous[1]

\* a second round-robin run returned, on a slice the first run had reordered
C13_Witness ==
    /\ Returned("RR")
    /\ previous # NoResult
    /\ processes # original
    /\ N >= 2
    /\ \E k \in 2..N : processes[k - 1].ArrivalTime = processes[k].ArrivalTime
    /\ Result = previous[1]

\* the slice FCFSSchedule appends for the k-th process, by the documented rule
FCFSSliceByClock(k) ==
    /\ gantt[k].Start = SumBursts(processes, k - 1) + RowWait(schedule[k])
    /\ gantt[k].Stop = SumBursts(processes, k)

\* C14 as stated: the slice of each process starts at (serviceTime before its
\* burst is added) + wait and stops at serviceTime after the burst is added.
C14_SliceFromClock ==
    alg = "FCFS" => /\ Len(gantt) = i - 1
                    /\ \A k \in DOMAIN gantt : FCFSSliceByClock(k)

\* C14 (amended): FCFSSchedule emits one slice per process, starting at
\* wait + arrival and stopping at serviceTime after the burst is added.
C14_SliceFromArrival ==
    alg = "FCFS" =>
        /\ Len(gantt) = i - 1
        /\ \A k \in DOMAIN gantt :
              /\ gantt[k].PID = processes[k].ProcessID
              /\ gantt[k].Start = RowWait(schedule[k]) + processes[k].ArrivalTime
              /\ gantt[k].Stop = SumBursts(processes, k)

\* a returned FCFS run in which a process waited, so that the two rules differ
C14_Witness ==
    /\ Returned("FCFS")
    /\ N >= 2
    /\ \E k \in DOMAIN gantt : RowWait(schedule[k]) > 0 /\ ~FCFSSliceByClock(k)
    /\ C14_SliceFromArrival

\* the process a Gantt slice or a row belongs to
ProcessOf(pid) == CHOOSE p \in Range(processes) : p.ProcessID = pid

\* the emitted row of process pid
RowOf(pid) == CHOOSE r \in EmittedRows : RowID(r) = pid

\* C15: the slice SJFSchedule appends for a process completing at t stops at
\* t and starts at t - (burst + wait), which is the arrival time.
C15_SRTFSlice ==
    alg = "SJF" =>
        \A g \in GanttSlices :
            LET p == ProcessOf(g.PID)
                r == RowOf(g.PID)
            IN /\ g.Stop = RowCompletion(r)
               /\ g.Start = g.Stop - (p.BurstDuration + RowWait(r))
               /\ g.Start = p.ArrivalTime

\* C16: when the loop of RRSchedule ends every process has run to
\* completion: remaining burst 0 and completion time >= arrival + burst.
C16_RRAllComplete ==
    RRLoopEnded =>
        \A k \in 1..N :
            /\ remainingBursts[k] = 0
            /\ completionTimes[k] >= processes[k].ArrivalTime + processes[k].BurstDuration

RECURSIVE MaxArrivalOf(_, _)
\* the largest arrival time among the first k processes, 0 for none
MaxArrivalOf(procs, k) ==
    IF k = 0 THEN 0 ELSE Max(MaxArrivalOf(procs, k - 1), procs[k].ArrivalTime)

\* largest arrival time + sum of all bursts
SRTFClockBound == MaxArrivalOf(processes, N) + SumBursts(processes, N)

\* every iteration of the SRTF loop advances the clock by one and never
\* takes a completion back
SRTFProgress ==
    (pc = "SJF" /\ pc' = "SJF") =>
        /\ currentTime' = currentTime + 1
        /\ \A k \in 1..N : completed[k] => completed'[k]
        /\ procDone' = procDone + Cardinality({k \in 1..N : completed'[k] /\ ~completed[k]})

SRTFBounded ==
    alg = "SJF" =>
        /\ currentTime <= SRTFClockBound
        /\ (procDone < N => currentTime < SRTFClockBound)
        /\ procDone = Cardinality({k \in 1..N : completed[k]})
        /\ Len(gantt) = procDone
        /\ \A k \in 1..N :
              Cardinality({j \in DOMAIN gantt : gantt[j].PID = processes[k].ProcessID})
                  = (IF completed[k] THEN 1 ELSE 0)
        /\ (pc = "idle" => procDone = N /\ \A k \in 1..N : completed[k])

\* C17: the SRTF loop terminates (the clock grows by one per iteration and
\* stays below largest arrival + sum of bursts while a process is left) with
\* every process completed exactly once and the clock at most that bound.
C17_SRTFTerminates == [][SRTFProgress]_vars /\ [](SRTFBounded)

\* an SRTF run that idled before a late arrival and ended exactly at the bound
C17_Witness ==
    /\ Returned("SJF")
    /\ N >= 2
    /\ \A k \in 1..N : processes[k].ArrivalTime > 0
    /\ currentTime = SRTFClockBound
    /\ procDone = N

RECURSIVE SumRows(_, _)
\* the sum of column c (5 wait, 6 turnaround) over the first k rows of the schedule
SumRows(c, k) == IF k = 0 THEN 0 ELSE SumRows(c, k - 1) + Atoi(schedule[k][c])

\* C18: the totals behind the averages are the sums of the wait and
\* turnaround values of the emitted rows.
C18_TotalsMatchRows ==
    (pc = "idle" /\ alg # "none") =>
        /\ totalWait = SumRows(5, N)
        /\ totalTurnaround = SumRows(6, N)

\* C19: on a non-empty arrival-sorted input the lastCompletion used for the
\* throughput is the largest completion time among the emitted rows.
C19_LastCompletionIsMax ==
    (pc = "idle" /\ alg # "none" /\ N >= 1 /\ ArrivalSorted(processes)) =>
        /\ \A r \in EmittedRows : RowCompletion(r) <= lastCompletion
        /\ \E r \in EmittedRows : RowCompletion(r) = lastCompletion

\* C20: the Gantt slices of SJFPrioritySchedule are in increasing time order
\* without overlap, each as long as its process's burst and none starting
\* before its process's arrival.
C20_PrioritySlices ==
    alg = "Priority" =>
        \A k \in DOMAIN gantt :
            /\ gantt[k].Start >= PreviousStop(k)
            /\ gantt[k].Stop - gantt[k].Start = ProcessOf(gantt[k].PID).BurstDuration
            /\ gantt[k].Start >= ProcessOf(gantt[k].PID).ArrivalTime

\* a returned run with a process that had to queue behind another and a
\* process the CPU idled for
C20_Witness ==
    /\ Returned("Priority")
    /\ Len(gantt) >= 2
    /\ \E k \in DOMAIN gantt : gantt[k].Start > ProcessOf(gantt[k].PID).ArrivalTime
    /\ \E k \in DOMAIN gantt : gantt[k].Start > PreviousStop(k)
    /\ C20_PrioritySlices

====
